---- MODULE Spec2Model ----
(***************************************************************************)
(* Model of the NocoBase database merge-export tool (merge-export.js):     *)
(* identifier normalisation, column reconciliation, junction discovery,    *)
(* exclusion-set construction and validation.  Names are sequences of      *)
(* one-character strings so that the regular-expression replacements of    *)
(* the source are computed character by character.                         *)
(***************************************************************************)
EXTENDS Integers, Sequences, FiniteSets, TLC

\* ------------------------------------------------------------------------
\* Character classes of the two regular expressions /[A-Z]/ and /_([a-z])/
\* ------------------------------------------------------------------------
LowerLetters ==
    << "a","b","c","d","e","f","g","h","i","j","k","l","m",
       "n","o","p","q","r","s","t","u","v","w","x","y","z" >>

UpperLetters ==
    << "A","B","C","D","E","F","G","H","I","J","K","L","M",
       "N","O","P","Q","R","S","T","U","V","W","X","Y","Z" >>

IsUpper(c) == \E i \in 1..Len(UpperLetters) : UpperLetters[i] = c

IsLower(c) == \E i \in 1..Len(LowerLetters) : LowerLetters[i] = c

toLowerCase(c) ==
    IF IsUpper(c)
    THEN LowerLetters[CHOOSE i \in 1..Len(UpperLetters) : UpperLetters[i] = c]
    ELSE c

toUpperCase(c) ==
    IF IsLower(c)
    THEN UpperLetters[CHOOSE i \in 1..Len(LowerLetters) : LowerLetters[i] = c]
    ELSE c

\* A plausible slip of camelToSnake: the letter is lowered, no separator.
RECURSIVE camelToSnakeNoSep(_)
camelToSnakeNoSep(str) ==
    IF str = << >> THEN << >>
    ELSE << toLowerCase(Head(str)) >> \o camelToSnakeNoSep(Tail(str))

\* str.replace(/[A-Z]/g, letter => `_${letter.toLowerCase()}`)
RECURSIVE camelToSnake(_)
camelToSnake(str) ==
    IF str = << >> THEN << >>
    ELSE (IF IsUpper(Head(str))
          THEN << "_", toLowerCase(Head(str)) >>
          ELSE << Head(str) >>) \o camelToSnake(Tail(str))

\* A plausible slip of snakeToCamel: only the first match is replaced
\* (the regular expression without its g flag).
RECURSIVE snakeToCamelFirstOnly(_)
snakeToCamelFirstOnly(str) ==
    IF str = << >> THEN << >>
    ELSE IF Head(str) = "_" /\ Len(str) >= 2 /\ IsLower(str[2])
         THEN << toUpperCase(str[2]) >> \o Tail(Tail(str))
         ELSE << Head(str) >> \o snakeToCamelFirstOnly(Tail(str))

\* str.replace(/_([a-z])/g, (match, letter) => letter.toUpperCase())
\* The scan is left to right and matches do not overlap.
RECURSIVE snakeToCamel(_)
snakeToCamel(str) ==
    IF str = << >> THEN << >>
    ELSE IF Head(str) = "_" /\ Len(str) >= 2 /\ IsLower(str[2])
         THEN << toUpperCase(str[2]) >> \o snakeToCamel(Tail(Tail(str)))
         ELSE << Head(str) >> \o snakeToCamel(Tail(str))

\* Values of export.dbUnderscored: the two booleans, an unset key, and two
\* values that are neither boolean nor undefined.
Modes == { "true", "false", "undefined", "auto", "null" }

\* JavaScript !dbUnderscored
NotMode(dbUnderscored) ==
    IF dbUnderscored \in { "true", "auto" } THEN "false" ELSE "true"

convertTableName(tableName, dbUnderscored) ==
    IF tableName = << >> THEN tableName
    ELSE IF dbUnderscored = "true" THEN camelToSnake(tableName)
    ELSE IF dbUnderscored = "false" THEN snakeToCamel(tableName)
    ELSE tableName

convertTableNames(tableNames, dbUnderscored) ==
    [ i \in 1..Len(tableNames) |-> convertTableName(tableNames[i], dbUnderscored) ]

\* ------------------------------------------------------------------------
\* Array helpers (Array.prototype.includes / filter, [...new Set(a)])
\* ------------------------------------------------------------------------
Range(seq) == { seq[i] : i \in 1..Len(seq) }

Includes(seq, x) == \E i \in 1..Len(seq) : seq[i] = x

\* [...new Set(a)]: the first occurrence of every element, in order
RECURSIVE UniqueFrom(_, _)
UniqueFrom(seq, seen) ==
    IF seq = << >> THEN << >>
    ELSE IF Head(seq) \in seen THEN UniqueFrom(Tail(seq), seen)
         ELSE << Head(seq) >> \o UniqueFrom(Tail(seq), seen \cup { Head(seq) })

\* A plausible slip: the list is copied without deduplication.
UniqueKeepAll(seq) == seq

Unique(seq) == UniqueFrom(seq, {})

\* a.filter(x => other.includes(x))
RECURSIVE FilterIn(_, _)
FilterIn(seq, other) ==
    IF seq = << >> THEN << >>
    ELSE (IF Includes(other, Head(seq)) THEN << Head(seq) >> ELSE << >>)
         \o FilterIn(Tail(seq), other)

\* a.filter(x => !other.includes(x))
RECURSIVE FilterNotIn(_, _)
FilterNotIn(seq, other) ==
    IF seq = << >> THEN << >>
    ELSE (IF Includes(other, Head(seq)) THEN << >> ELSE << Head(seq) >>)
         \o FilterNotIn(Tail(seq), other)

\* Sequences over S of length at most n
SeqsUpTo(S, n) == UNION { [ 1..k -> S ] : k \in 0..n }

IsDuplicateFree(seq) == \A i, j \in 1..Len(seq) : seq[i] = seq[j] => i = j

\* ------------------------------------------------------------------------
\* Column Reconciler: getCommonColumns
\* ------------------------------------------------------------------------
\* A plausible slip: the intersection is not taken (every Source column kept).
getCommonColumnsNoFilter(sourceColumnNames, targetColumnNames) ==
    [ commonColumns     |-> sourceColumnNames,
      sourceColumnNames |-> sourceColumnNames,
      targetColumnNames |-> targetColumnNames,
      sourceOnly        |-> FilterNotIn(sourceColumnNames, targetColumnNames),
      targetOnly        |-> FilterNotIn(targetColumnNames, sourceColumnNames) ]

\* A plausible slip: the intersection is taken in Target's column order.
getCommonColumnsTargetOrder(sourceColumnNames, targetColumnNames) ==
    [ commonColumns     |-> FilterIn(targetColumnNames, sourceColumnNames),
      sourceColumnNames |-> sourceColumnNames,
      targetColumnNames |-> targetColumnNames,
      sourceOnly        |-> FilterNotIn(sourceColumnNames, targetColumnNames),
      targetOnly        |-> FilterNotIn(targetColumnNames, sourceColumnNames) ]

\* The two arguments are the COLUMN_NAME lists the two catalog queries
\* return, ordered by ORDINAL_POSITION.
getCommonColumns(sourceColumnNames, targetColumnNames) ==
    [ commonColumns     |-> FilterIn(sourceColumnNames, targetColumnNames),
      sourceColumnNames |-> sourceColumnNames,
      targetColumnNames |-> targetColumnNames,
      sourceOnly        |-> FilterNotIn(sourceColumnNames, targetColumnNames),
      targetOnly        |-> FilterNotIn(targetColumnNames, sourceColumnNames) ]

\* ------------------------------------------------------------------------
\* Junction Discoverer: getM2MJunctionTables
\* ------------------------------------------------------------------------
\* fields: the rows of the relationship-metadata table `fields` with
\* interface = 'm2m' and options not null, in the order the query returns
\* them.  A row is [collection_name, parses, through]: parses = FALSE is an
\* options payload JSON.parse rejects, through = << >> a payload without a
\* through attribute.
RECURSIVE ThroughTables(_, _)
ThroughTables(fields, dbUnderscoredArg) ==
    IF fields = << >> THEN << >>
    ELSE (IF Head(fields).parses /\ Head(fields).through # << >>
          THEN << convertTableName(Head(fields).through, dbUnderscoredArg) >>
          ELSE << >>)
         \o ThroughTables(Tail(fields), dbUnderscoredArg)

RECURSIVE SelectFields(_, _)
SelectFields(rows, names) ==
    IF rows = << >> THEN << >>
    ELSE (IF Includes(names, Head(rows).collection_name)
          THEN << Head(rows) >> ELSE << >>)
         \o SelectFields(Tail(rows), names)

\* A plausible slip: the discovery is repeated over the tables it found.
getM2MJunctionTablesTransitive(rows, tableExists, queryFails, excludeTablesArg, dbUnderscoredArg) ==
    LET first == ThroughTables(SelectFields(rows, excludeTablesArg), dbUnderscoredArg)
    IN IF queryFails THEN << >>
       ELSE IF ~tableExists THEN << >>
       ELSE Unique(ThroughTables(SelectFields(rows, excludeTablesArg \o first),
                                 dbUnderscoredArg))

\* A plausible slip: the parse of a payload is not guarded per field, so one
\* malformed payload reaches the outer catch.
getM2MJunctionTablesNoFieldCatch(rows, tableExists, queryFails, excludeTablesArg, dbUnderscoredArg) ==
    LET fields == SelectFields(rows, excludeTablesArg)
    IN IF queryFails THEN << >>
       ELSE IF ~tableExists THEN << >>
       ELSE IF \E i \in 1..Len(fields) : ~fields[i].parses THEN << >>
       ELSE Unique(ThroughTables(fields, dbUnderscoredArg))

\* A plausible slip: a failed query is not caught as an empty result.
getM2MJunctionTablesNoCatch(rows, tableExists, queryFails, excludeTablesArg, dbUnderscoredArg) ==
    IF ~tableExists THEN << >>
    ELSE Unique(ThroughTables(SelectFields(rows, excludeTablesArg), dbUnderscoredArg))

\* queryFails: one of the two queries of the function throws; the catch
\* around the whole body returns [].
getM2MJunctionTables(rows, tableExists, queryFails, excludeTablesArg, dbUnderscoredArg) ==
    IF queryFails THEN << >>
    ELSE IF ~tableExists THEN << >>
    ELSE Unique(ThroughTables(SelectFields(rows, excludeTablesArg), dbUnderscoredArg))

\* ------------------------------------------------------------------------
\* Table-Set Builder: the pieces of mergeExports
\* ------------------------------------------------------------------------
\* Normalisation and deduplication of export.excludeTables
NormalizedExcludeTables(tables, mode) ==
    IF mode # "undefined" THEN convertTableNames(tables, mode) ELSE tables

\* The names handed to the metadata query
OriginalExcludeTables(tables, mode) ==
    IF mode # "undefined" THEN convertTableNames(tables, NotMode(mode)) ELSE tables

\* Merging the discovered association tables into the exclusion list
MergeJunctionTables(tables, junctions) ==
    IF Len(junctions) > 0
    THEN tables \o FilterNotIn(junctions, tables)
    ELSE tables

\* A plausible slip: the two categories of a dropped table are exchanged.
ClassifySwapped(existsInTarget, existsInSource) ==
    IF existsInTarget /\ existsInSource THEN "valid"
    ELSE IF ~existsInTarget THEN "sourceOnly"
    ELSE "targetOnly"

\* A plausible slip: a table found in one catalog only is accepted.
ClassifyEither(existsInTarget, existsInSource) ==
    IF existsInTarget \/ existsInSource THEN "valid"
    ELSE "targetOnly"

\* The branch of the validation loop a table takes
Classify(existsInTarget, existsInSource) ==
    IF existsInTarget /\ existsInSource THEN "valid"
    ELSE IF ~existsInTarget THEN "targetOnly"
    ELSE "sourceOnly"

\* A plausible slip: the structure dump is taken after the merge data.
NextStepDumpLast(step) ==
    CASE step = "Init"               -> "DiscoverJunctions"
      [] step = "DiscoverJunctions"  -> "BuildTableSet"
      [] step = "BuildTableSet"      -> "ValidateExclusions"
      [] step = "DumpStructure"      -> "Done"
      [] step = "ValidateExclusions" -> "EmitMergeData"
      [] step = "EmitMergeData"      -> "DumpStructure"
      [] OTHER                       -> step

\* The order of the awaited steps in the try block of mergeExports
NextStep(step) ==
    CASE step = "Init"               -> "DiscoverJunctions"
      [] step = "DiscoverJunctions"  -> "BuildTableSet"
      [] step = "BuildTableSet"      -> "DumpStructure"
      [] step = "DumpStructure"      -> "ValidateExclusions"
      [] step = "ValidateExclusions" -> "EmitMergeData"
      [] step = "EmitMergeData"      -> "Done"
      [] OTHER                       -> step

\* What can throw in each step: createConnection, a query outside
\* getM2MJunctionTables, the dump utility (spawn error or non-zero exit),
\* fs.writeFile / fs.appendFile.
FailureReasons(step) ==
    CASE step = "DiscoverJunctions"  -> { "connect" }
      [] step = "DumpStructure"      -> { "dump", "write" }
      [] step = "ValidateExclusions" -> { "connect", "query" }
      [] step = "EmitMergeData"      -> { "connect", "query", "dump", "write" }
      [] OTHER                       -> {}

\* A plausible slip: the error is logged and the run carries on.
FailureTargetContinue(step) == NextStep(step)

\* catch (error) { ...; process.exit(1) }
FailureTarget(step) == "Aborted"

\* ------------------------------------------------------------------------
\* Output file name
\* ------------------------------------------------------------------------
\* A file name is [stem, stamps, ext]: stamps are the YYYYMMDD_HHMMSS
\* timestamps its text holds, each given by the second it denotes, ext what
\* follows them (".sql" or something else).

\* /\d{8}_\d{6}/.test(outputFile)
hasTimestamp(outputFile) == outputFile.stamps # << >>

\* outputFile.replace(/\.sql$/, `_${timestamp}.sql`)
insertTimestamp(outputFile, timestamp) ==
    IF outputFile.ext = ".sql"
    THEN [ outputFile EXCEPT !.stamps = Append(outputFile.stamps, timestamp) ]
    ELSE outputFile

\* mergeExports: the name the run writes to
RunOutputFile(outputFile, timestamp) ==
    IF ~hasTimestamp(outputFile)
    THEN insertTimestamp(outputFile, timestamp)
    ELSE outputFile

\* dbm --init: `./merged_export_${timestamp}.sql` stored in config.json
InitOutputFile(timestamp) ==
    [ stem |-> "./merged_export", stamps |-> << timestamp >>, ext |-> ".sql" ]

\* ------------------------------------------------------------------------
\* Merge Emitter
\* ------------------------------------------------------------------------
\* The text appended to the artifact is a sequence of entries: a comment
\* (note says which), a DELETE FROM `table`, or a load statement writing
\* rows from..to of Target into the named columns; via tells where the
\* rows were read from (the table itself, the temporary view over the
\* common columns, or the SELECT of the common columns).
Entry(kind, table, columns, from, to, via, note) ==
    [ kind |-> kind, table |-> table, columns |-> columns,
      from |-> from, to |-> to, via |-> via, note |-> note ]

CommentEntry(table, note) == Entry("comment", table, << >>, 0, 0, "", note)

DeleteEntry(table) == Entry("delete", table, << >>, 0, 0, "", "")

LoadEntry(table, columns, from, to, via) ==
    Entry("load", table, columns, from, to, via, "")

DumpEntry == Entry("dump", << >>, << >>, 0, 0, "", "")

Banner == CommentEntry(<< >>, "banner")

\* The output of the dump utility for one object with --no-create-info
\* --complete-insert: the rows of the object with its column list, nothing
\* when it holds no row.
DumpOutput(table, columns, rowCount, via) ==
    IF rowCount = 0 THEN << >>
    ELSE << LoadEntry(table, columns, 1, rowCount, via) >>

\* A plausible slip: the table is cleared only when Target holds rows.
DumpSectionDeleteIfRows(table, sourceColumnNames, targetColumnNames, rowCount) ==
    LET columnInfo == getCommonColumns(sourceColumnNames, targetColumnNames)
    IN  IF columnInfo.sourceColumnNames = << >>
        THEN << CommentEntry(table, "notFoundInSource") >>
        ELSE IF columnInfo.targetColumnNames = << >>
        THEN << CommentEntry(table, "notFoundInTarget") >>
        ELSE IF columnInfo.commonColumns = << >>
        THEN << CommentEntry(table, "noCommonColumns") >>
        ELSE << CommentEntry(table, "header") >>
             \o (IF rowCount = 0 THEN << >> ELSE << DeleteEntry(table) >>)
             \o (IF columnInfo.targetOnly = << >>
                 THEN DumpOutput(table, columnInfo.targetColumnNames, rowCount, "table")
                 ELSE DumpOutput(table, columnInfo.commonColumns, rowCount, "view"))

\* A plausible slip: the table itself is dumped whatever its columns.
DumpSectionRawDump(table, sourceColumnNames, targetColumnNames, rowCount) ==
    LET columnInfo == getCommonColumns(sourceColumnNames, targetColumnNames)
    IN  IF columnInfo.sourceColumnNames = << >>
        THEN << CommentEntry(table, "notFoundInSource") >>
        ELSE IF columnInfo.targetColumnNames = << >>
        THEN << CommentEntry(table, "notFoundInTarget") >>
        ELSE IF columnInfo.commonColumns = << >>
        THEN << CommentEntry(table, "noCommonColumns") >>
        ELSE << CommentEntry(table, "header"), DeleteEntry(table) >>
             \o DumpOutput(table, columnInfo.targetColumnNames, rowCount, "table")

\* exportTargetTablesData, the body of the loop for one table when no query
\* and no dump fails
DumpSection(table, sourceColumnNames, targetColumnNames, rowCount) ==
    LET columnInfo == getCommonColumns(sourceColumnNames, targetColumnNames)
    IN  IF columnInfo.sourceColumnNames = << >>
        THEN << CommentEntry(table, "notFoundInSource") >>
        ELSE IF columnInfo.targetColumnNames = << >>
        THEN << CommentEntry(table, "notFoundInTarget") >>
        ELSE IF columnInfo.commonColumns = << >>
        THEN << CommentEntry(table, "noCommonColumns") >>
        ELSE << CommentEntry(table, "header"), DeleteEntry(table) >>
             \o (IF columnInfo.targetOnly = << >>
                 THEN DumpOutput(table, columnInfo.targetColumnNames, rowCount, "table")
                 ELSE DumpOutput(table, columnInfo.commonColumns, rowCount, "view"))

\* A plausible slip: the text gathered so far is flushed before rethrowing.
FileAfterFailureFlush(file, text) == file \o text

\* catch (error) { console.error(...); throw error }: the text gathered in
\* targetDataSQL is dropped, the file stays as exportStructure wrote it
FileAfterFailure(file, text) == file

batchSize == 100

\* for (let i = 0; i < rows.length; i += batchSize): one REPLACE INTO per
\* slice of batchSize rows; from is the 1-based number of the first row
RECURSIVE ReplaceBatches(_, _, _, _)
ReplaceBatches(table, columnNames, from, rowCount) ==
    IF from > rowCount THEN << >>
    ELSE << LoadEntry(table, columnNames, from,
                      IF from + batchSize - 1 <= rowCount
                      THEN from + batchSize - 1 ELSE rowCount,
                      "select") >>
         \o ReplaceBatches(table, columnNames, from + batchSize, rowCount)

\* A plausible slip: all rows go into one statement.
exportTableDataWithReplaceOneStatement(table, sourceColumnNames, targetColumnNames, rowCount, outcome) ==
    LET columnNames == FilterIn(sourceColumnNames, targetColumnNames)
    IN  IF outcome # "ok"
        THEN << CommentEntry(table, "error") >>
        ELSE IF sourceColumnNames = << >>
        THEN << CommentEntry(table, "notFoundInSource") >>
        ELSE IF targetColumnNames = << >>
        THEN << CommentEntry(table, "notFoundInTarget") >>
        ELSE IF columnNames = << >>
        THEN << CommentEntry(table, "noCommonColumns") >>
        ELSE IF rowCount = 0
        THEN << CommentEntry(table, "emptyInTarget") >>
        ELSE << CommentEntry(table, "header"),
                LoadEntry(table, columnNames, 1, rowCount, "select") >>

\* exportTableDataWithReplace: outcome is "ok", or the error thrown by a
\* connection or a query, which the catch turns into a comment.
exportTableDataWithReplace(table, sourceColumnNames, targetColumnNames, rowCount, outcome) ==
    LET columnNames == FilterIn(sourceColumnNames, targetColumnNames)
    IN  IF outcome # "ok"
        THEN << CommentEntry(table, "error") >>
        ELSE IF sourceColumnNames = << >>
        THEN << CommentEntry(table, "notFoundInSource") >>
        ELSE IF targetColumnNames = << >>
        THEN << CommentEntry(table, "notFoundInTarget") >>
        ELSE IF columnNames = << >>
        THEN << CommentEntry(table, "noCommonColumns") >>
        ELSE IF rowCount = 0
        THEN << CommentEntry(table, "emptyInTarget") >>
        ELSE << CommentEntry(table, "header") >>
             \o ReplaceBatches(table, columnNames, 1, rowCount)

\* A plausible slip: the rows are loaded without clearing the table first.
ReplaceSectionNoClear(table, sourceColumnNames, targetColumnNames, rowCount, outcome) ==
    << CommentEntry(table, "clear") >>
    \o exportTableDataWithReplace(table, sourceColumnNames, targetColumnNames,
                                  rowCount, outcome)

\* The body of the loop of the REPLACE-based mergeExports for one table
ReplaceSection(table, sourceColumnNames, targetColumnNames, rowCount, outcome) ==
    << CommentEntry(table, "clear"), DeleteEntry(table) >>
    \o exportTableDataWithReplace(table, sourceColumnNames, targetColumnNames,
                                  rowCount, outcome)

\* ------------------------------------------------------------------------
\* Bounds and input pools
\* ------------------------------------------------------------------------
MaxNameLen == 4

MaxCols == 4

MaxInitial == 2

MaxFields == 2
MaxMeta == 3
MaxTables == 2
MaxRows == 1
MaxClock == 4
MaxChunks == 2
MaxBuffered == 1
MaxRuns == 3

NameChars == { "a", "b", "A", "B", "_", "1" }

ColumnPool == { "id", "name", "status", "legacy" }

users == << "u","s","e","r","s" >>

userRoles == << "u","s","e","r","R","o","l","e","s" >>

user_roles == << "u","s","e","r","_","r","o","l","e","s" >>

tags == << "t","a","g","s" >>

\* Names a configuration may list in export.excludeTables
NamePool == { users, userRoles, user_roles }

\* Tables a catalog (information_schema.tables of one database) may hold
CatalogPool == { users, user_roles }

\* Rows the metadata table may hold in a run of the pipeline: users.roles
\* through userRoles and a field of userRoles through tags
FieldPool ==
    { [ collection_name |-> users,     parses |-> TRUE,  through |-> userRoles ],
      [ collection_name |-> userRoles, parses |-> TRUE,  through |-> tags ] }

\* Rows of m2m fields for the discovery on its own: two fields of users whose
\* through names normalize to the same table, a payload that does not parse
\* (its text names tags), a payload without through, a field of userRoles
MetaPool ==
    { [ collection_name |-> users,     parses |-> TRUE,  through |-> userRoles ],
      [ collection_name |-> users,     parses |-> TRUE,  through |-> user_roles ],
      [ collection_name |-> users,     parses |-> FALSE, through |-> tags ],
      [ collection_name |-> users,     parses |-> TRUE,  through |-> << >> ],
      [ collection_name |-> userRoles, parses |-> TRUE,  through |-> tags ] }

\* Tables handed to the emitter
TablePool == { users, tags }

\* Column lists of one table in Source and in Target: equal, reordered,
\* a Target-only column, a Source-only column, nothing in common, and the
\* table missing from Source or from Target (no column)
ColumnCases ==
    { [ source |-> << "id", "name" >>, target |-> << "id", "name" >> ],
      [ source |-> << "id", "name" >>, target |-> << "name", "id" >> ],
      [ source |-> << "id" >>,         target |-> << "id", "legacy" >> ],
      [ source |-> << "id", "name" >>, target |-> << "id" >> ],
      [ source |-> << "id" >>,         target |-> << "name" >> ],
      [ source |-> << >>,              target |-> << "id" >> ],
      [ source |-> << "id" >>,         target |-> << >> ] }

\* The dump-based emitter is handed the validated tables, which exist in
\* both databases; the REPLACE-based one the whole exclusion list.
ColumnCasesFor(variant) ==
    IF variant = "dump"
    THEN { c \in ColumnCases : c.source # << >> /\ c.target # << >> }
    ELSE ColumnCases

\* Numbers of rows of a table in Target: few, one full batch, and one more
RowCounts == (0..MaxRows) \cup { batchSize, batchSize + 1 }

\* outputFile values written by hand: the one of the sample configuration,
\* one with another stem, one that does not end in .sql
HandWrittenPool ==
    { [ stem |-> "./merged_export", stamps |-> << >>, ext |-> ".sql" ],
      [ stem |-> "./backup",        stamps |-> << >>, ext |-> ".sql" ],
      [ stem |-> "./backup",        stamps |-> << >>, ext |-> ".txt" ] }

QueryNamePool == { << users >>, << users, userRoles >> }

NoColumnInfo ==
    [ commonColumns |-> << >>, sourceColumnNames |-> << >>,
      targetColumnNames |-> << >>, sourceOnly |-> << >>, targetOnly |-> << >> ]

VARIABLES
    \* Identifier Normalizer
    name, nmode, nresult, npc,
    \* Column Reconciler
    sourceCols, targetCols, columnInfo, cpc,
    \* configuration and the two databases
    cfgExcludeTables, dbUnderscored, fieldRows, fieldsTableExists,
    sourceCatalog, targetCatalog,
    \* mergeExports
    pc, excludeTables, duplicateCount, originalExcludeTables, junctionTables,
    vidx, validTables, sourceOnlyTables, targetOnlyTables, artifact,
    discoveryError, failure,
    \* merge-data emission of a list of tables
    emitter, etables, srcColsOf, tgtColsOf, rowCountOf,
    eidx, targetDataSQL, efile, epc, efailed, efailure,
    srcOpen, tgtOpen, tgtPeak,
    \* getM2MJunctionTables on bounded metadata
    drows, dnames, dmode, dresult, dpc,
    \* output file names over several runs
    cfgOutputFile, clock, writes, fpc,
    \* exportStructure and its two dump processes
    sState, sTotal, sLeft, structureOutput, dState, dTotal, dLeft, dBuffered,
    dataOutput, dListeners, promise, xfile

normVars == << name, nmode, nresult, npc >>

colVars == << sourceCols, targetCols, columnInfo, cpc >>

envVars == << cfgExcludeTables, dbUnderscored, fieldRows, fieldsTableExists,
              sourceCatalog, targetCatalog >>

runVars == << pc, excludeTables, duplicateCount, originalExcludeTables,
              junctionTables, vidx, validTables, sourceOnlyTables,
              targetOnlyTables, artifact, discoveryError, failure >>

emitVars == << emitter, etables, srcColsOf, tgtColsOf, rowCountOf,
               eidx, targetDataSQL, efile, epc, efailed, efailure,
               srcOpen, tgtOpen, tgtPeak >>

discVars == << drows, dnames, dmode, dresult, dpc >>

fileVars == << cfgOutputFile, clock, writes, fpc >>

dumpVars == << sState, sTotal, sLeft, structureOutput, dState, dTotal, dLeft,
               dBuffered, dataOutput, dListeners, promise, xfile >>

vars == << normVars, colVars, envVars, runVars, emitVars, discVars, fileVars,
           dumpVars >>

NormIdle ==
    /\ name = << >> /\ nmode = "undefined" /\ nresult = << >> /\ npc = "idle"

ColIdle ==
    /\ sourceCols = << >> /\ targetCols = << >>
    /\ columnInfo = NoColumnInfo /\ cpc = "idle"

RunIdle ==
    /\ cfgExcludeTables = << >> /\ dbUnderscored = "undefined"
    /\ fieldRows = << >> /\ fieldsTableExists = FALSE
    /\ sourceCatalog = {} /\ targetCatalog = {}
    /\ pc = "idle" /\ excludeTables = << >> /\ duplicateCount = 0
    /\ originalExcludeTables = << >> /\ junctionTables = << >>
    /\ vidx = 1 /\ validTables = << >> /\ sourceOnlyTables = << >>
    /\ targetOnlyTables = << >> /\ artifact = << >>
    /\ discoveryError = FALSE /\ failure = "none"

EmitIdle ==
    /\ emitter = "none" /\ etables = << >>
    /\ srcColsOf = << >> /\ tgtColsOf = << >> /\ rowCountOf = << >>
    /\ eidx = 1 /\ targetDataSQL = << >> /\ efile = << >>
    /\ epc = "idle" /\ efailed = {} /\ efailure = "none"
    /\ srcOpen = 0 /\ tgtOpen = 0 /\ tgtPeak = 0

DiscIdle ==
    /\ drows = << >> /\ dnames = << >> /\ dmode = "undefined"
    /\ dresult = << >> /\ dpc = "idle"

FileIdle ==
    /\ cfgOutputFile = << >> /\ clock = 0 /\ writes = << >> /\ fpc = "idle"

DumpIdle ==
    /\ sState = "none" /\ sTotal = 0 /\ sLeft = 0 /\ structureOutput = 0
    /\ dState = "none" /\ dTotal = 0 /\ dLeft = 0 /\ dBuffered = 0
    /\ dataOutput = 0 /\ dListeners = FALSE /\ promise = "none"
    /\ xfile = << >>

\* ------------------------------------------------------------------------
\* Identifier Normalizer applied to bounded names
\* ------------------------------------------------------------------------
InitNames ==
    /\ name \in SeqsUpTo(NameChars, MaxNameLen)
    /\ nmode = "undefined" /\ nresult = << >> /\ npc = "input"
    /\ ColIdle /\ RunIdle /\ EmitIdle /\ DiscIdle /\ FileIdle /\ DumpIdle

Normalize ==
    /\ npc = "input"
    /\ \E m \in Modes :
          /\ nmode' = m
          /\ nresult' = convertTableName(name, m)
    /\ npc' = "normalized"
    /\ UNCHANGED << name, colVars, envVars, runVars, emitVars, discVars, fileVars, dumpVars >>

RoundTrip ==
    /\ npc = "input"
    /\ nmode' = "undefined"
    /\ nresult' = convertTableName(convertTableName(name, "true"), "false")
    /\ npc' = "roundtrip"
    /\ UNCHANGED << name, colVars, envVars, runVars, emitVars, discVars, fileVars, dumpVars >>

NextNames == Normalize \/ RoundTrip

SpecNames == InitNames /\ [][NextNames]_vars

\* ------------------------------------------------------------------------
\* Column Reconciler applied to bounded column lists
\* ------------------------------------------------------------------------
InitColumns ==
    /\ sourceCols \in { c \in SeqsUpTo(ColumnPool, MaxCols) : IsDuplicateFree(c) }
    /\ targetCols \in { c \in SeqsUpTo(ColumnPool, MaxCols) : IsDuplicateFree(c) }
    /\ columnInfo = NoColumnInfo /\ cpc = "input"
    /\ NormIdle /\ RunIdle /\ EmitIdle /\ DiscIdle /\ FileIdle /\ DumpIdle

Reconcile ==
    /\ cpc = "input"
    /\ columnInfo' = getCommonColumns(sourceCols, targetCols)
    /\ cpc' = "reconciled"
    /\ UNCHANGED << sourceCols, targetCols, normVars, envVars, runVars,
                    emitVars, discVars, fileVars, dumpVars >>

NextColumns == Reconcile

SpecColumns == InitColumns /\ [][NextColumns]_vars

\* ------------------------------------------------------------------------
\* mergeExports: the pipeline
\* ------------------------------------------------------------------------
Init ==
    /\ cfgExcludeTables \in SeqsUpTo(NamePool, MaxInitial)
    /\ dbUnderscored \in Modes
    /\ fieldRows \in SeqsUpTo(FieldPool, MaxFields)
    \* a metadata table that does not exist has no rows
    /\ fieldsTableExists \in { b \in BOOLEAN : b \/ fieldRows = << >> }
    /\ sourceCatalog \in SUBSET CatalogPool
    /\ targetCatalog \in SUBSET CatalogPool
    /\ pc = "Init"
    /\ excludeTables = cfgExcludeTables
    /\ duplicateCount = 0
    /\ originalExcludeTables = << >> /\ junctionTables = << >>
    /\ vidx = 1 /\ validTables = << >> /\ sourceOnlyTables = << >>
    /\ targetOnlyTables = << >> /\ artifact = << >>
    /\ discoveryError = FALSE /\ failure = "none"
    /\ NormIdle /\ ColIdle /\ EmitIdle /\ DiscIdle /\ FileIdle /\ DumpIdle

\* Conversion of the configured names, then deduplication
NormalizeAndDedup ==
    /\ pc = "Init"
    /\ LET converted == NormalizedExcludeTables(excludeTables, dbUnderscored)
       IN /\ excludeTables' = Unique(converted)
          /\ duplicateCount' = Len(converted) - Len(Unique(converted))
    /\ pc' = NextStep(pc)
    /\ UNCHANGED << originalExcludeTables, junctionTables, vidx, validTables,
                    sourceOnlyTables, targetOnlyTables, artifact,
                    discoveryError, failure,
                    normVars, colVars, envVars, emitVars, discVars, fileVars,
                    dumpVars >>

\* Step 0: the metadata query over the re-derived names
DiscoverJunctions ==
    /\ pc = "DiscoverJunctions"
    /\ originalExcludeTables' = OriginalExcludeTables(excludeTables, dbUnderscored)
    /\ \E queryFails \in BOOLEAN :
          /\ discoveryError' = queryFails
          /\ junctionTables' = getM2MJunctionTables(fieldRows, fieldsTableExists,
                                   queryFails,
                                   OriginalExcludeTables(excludeTables, dbUnderscored),
                                   dbUnderscored)
    /\ pc' = NextStep(pc)
    /\ UNCHANGED << excludeTables, duplicateCount, vidx, validTables,
                    sourceOnlyTables, targetOnlyTables, artifact,
                    failure, normVars, colVars, envVars, emitVars, discVars, fileVars, dumpVars >>

BuildTableSet ==
    /\ pc = "BuildTableSet"
    /\ excludeTables' = MergeJunctionTables(excludeTables, junctionTables)
    /\ pc' = NextStep(pc)
    /\ UNCHANGED << duplicateCount, originalExcludeTables, junctionTables, vidx,
                    validTables, sourceOnlyTables, targetOnlyTables, artifact,
                    discoveryError, failure,
                    normVars, colVars, envVars, emitVars, discVars, fileVars,
                    dumpVars >>

\* Step 1: exportStructure writes the header and the dump of Source; the
\* header lists, and the data dump ignores, the tables of excludeTables.
DumpStructure ==
    /\ pc = "DumpStructure"
    /\ artifact' = << [ kind |-> "dump", tables |-> excludeTables ] >>
    /\ vidx' = 1
    /\ validTables' = << >>
    /\ sourceOnlyTables' = << >>
    /\ targetOnlyTables' = << >>
    /\ pc' = NextStep(pc)
    /\ UNCHANGED << excludeTables, duplicateCount, originalExcludeTables,
                    junctionTables, discoveryError, failure,
                    normVars, colVars, envVars, emitVars, discVars, fileVars,
                    dumpVars >>

\* Step 3: one iteration of the validation loop
ValidateTable ==
    /\ pc = "ValidateExclusions"
    /\ vidx <= Len(excludeTables)
    /\ LET table == excludeTables[vidx]
           class == Classify(table \in targetCatalog, table \in sourceCatalog)
       IN /\ validTables' =
                IF class = "valid" THEN Append(validTables, table) ELSE validTables
          /\ targetOnlyTables' =
                IF class = "targetOnly" THEN Append(targetOnlyTables, table)
                ELSE targetOnlyTables
          /\ sourceOnlyTables' =
                IF class = "sourceOnly" THEN Append(sourceOnlyTables, table)
                ELSE sourceOnlyTables
    /\ vidx' = vidx + 1
    /\ UNCHANGED << pc, excludeTables, duplicateCount, originalExcludeTables,
                    junctionTables, artifact, discoveryError, failure,
                    normVars, colVars, envVars, emitVars, discVars, fileVars,
                    dumpVars >>

\* End of the loop: excludeTables = validTables
FinishValidate ==
    /\ pc = "ValidateExclusions"
    /\ vidx > Len(excludeTables)
    /\ excludeTables' = validTables
    /\ pc' = NextStep(pc)
    /\ UNCHANGED << duplicateCount, originalExcludeTables, junctionTables, vidx,
                    validTables, sourceOnlyTables, targetOnlyTables, artifact,
                    discoveryError, failure,
                    normVars, colVars, envVars, emitVars, discVars, fileVars,
                    dumpVars >>

\* Step 4: exportTargetTablesData appends one merge-data section per table
\* it is given, and nothing when the list is empty.
\* A step throws: the catch of mergeExports ends the process.  Connections
\* are opened at the start of a step, the queries of the validation are
\* made per table; exportTargetTablesData returns at once, before any
\* connection, query, dump or write, when it is given no table.
Fail ==
    /\ pc = "EmitMergeData" => excludeTables # << >>
    /\ \E reason \in FailureReasons(pc) :
          /\ (pc = "ValidateExclusions" /\ reason = "connect") => vidx = 1
          /\ (pc = "ValidateExclusions" /\ reason = "query") =>
                vidx <= Len(excludeTables)
          /\ failure' = reason
          /\ pc' = FailureTarget(pc)
    /\ UNCHANGED << excludeTables, duplicateCount, originalExcludeTables,
                    junctionTables, vidx, validTables, sourceOnlyTables,
                    targetOnlyTables, artifact, discoveryError,
                    normVars, colVars, envVars, emitVars, discVars, fileVars, dumpVars >>

EmitMergeData ==
    /\ pc = "EmitMergeData"
    /\ artifact' = artifact \o
          [ i \in 1..Len(excludeTables) |->
                [ kind |-> "section", tables |-> << excludeTables[i] >> ] ]
    /\ pc' = NextStep(pc)
    /\ UNCHANGED << excludeTables, duplicateCount, originalExcludeTables,
                    junctionTables, vidx, validTables, sourceOnlyTables,
                    targetOnlyTables, discoveryError, failure,
                    normVars, colVars, envVars, emitVars, discVars, fileVars,
                    dumpVars >>

Next ==
    \/ NormalizeAndDedup
    \/ DiscoverJunctions
    \/ BuildTableSet
    \/ DumpStructure
    \/ ValidateTable
    \/ FinishValidate
    \/ EmitMergeData
    \/ Fail

Spec == Init /\ [][Next]_vars

\* ------------------------------------------------------------------------
\* Properties
\* ------------------------------------------------------------------------
Min(a, b) == IF a <= b THEN a ELSE b

PosOf(seq, x) == CHOOSE i \in 1..Len(seq) : seq[i] = x

Count(seq, x) == Cardinality({ i \in 1..Len(seq) : seq[i] = x })

\* C1: for duplicate-free column lists the reconciliation returns common =
\* exactly the columns present in both lists, sourceOnly = Source minus
\* common, targetOnly = Target minus common; common is disjoint from both
\* remainders, each remainder together with common gives back its input, and
\* common is no longer than the shorter input.
C1_Partition ==
    cpc = "reconciled" =>
        LET S == Range(sourceCols)
            T == Range(targetCols)
            common == columnInfo.commonColumns
        IN /\ Range(common) = S \cap T
           /\ Range(columnInfo.sourceOnly) = S \ Range(common)
           /\ Range(columnInfo.targetOnly) = T \ Range(common)
           /\ Range(common) \cap Range(columnInfo.sourceOnly) = {}
           /\ Range(common) \cap Range(columnInfo.targetOnly) = {}
           /\ Range(columnInfo.sourceOnly) \cup Range(common) = S
           /\ Range(columnInfo.targetOnly) \cup Range(common) = T
           /\ Len(common) <= Min(Len(sourceCols), Len(targetCols))
           /\ Len(common) + Len(columnInfo.sourceOnly) = Len(sourceCols)
           /\ Len(common) + Len(columnInfo.targetOnly) = Len(targetCols)

C1_Witness ==
    /\ cpc = "reconciled"
    /\ columnInfo.commonColumns # << >>
    /\ columnInfo.sourceOnly # << >>
    /\ columnInfo.targetOnly # << >>

\* C2: common keeps Source's column order whatever Target's order is; Source
\* [id,name,status] against Target [id,name,status,legacy] gives common
\* [id,name,status], targetOnly [legacy] and an empty sourceOnly.
C2_SourceOrder ==
    cpc = "reconciled" =>
        LET common == columnInfo.commonColumns
        IN /\ \A i, j \in 1..Len(common) :
                 i < j <=> PosOf(sourceCols, common[i]) < PosOf(sourceCols, common[j])
           /\ (sourceCols = << "id", "name", "status" >>
               /\ targetCols = << "id", "name", "status", "legacy" >>)
              => /\ common = << "id", "name", "status" >>
                 /\ columnInfo.targetOnly = << "legacy" >>
                 /\ columnInfo.sourceOnly = << >>

C2_Witness ==
    /\ cpc = "reconciled"
    /\ sourceCols = << "id", "name", "status" >>
    /\ targetCols = << "status", "legacy", "id" >>
    /\ columnInfo.commonColumns = << "id", "status" >>

\* The exclusion list as it stood when the structure dump was taken: the
\* working set the validation loop runs over.
WorkingSet == IF artifact = << >> THEN excludeTables ELSE artifact[1].tables

SectionTables ==
    { artifact[i].tables[1] : i \in { k \in 1..Len(artifact) : artifact[k].kind = "section" } }

InBoth(t) == t \in sourceCatalog /\ t \in targetCatalog

\* C3: the validated list holds a table only if the table exists in the
\* Source catalog and in the Target catalog, and only such tables are
\* handed to merge-data emission.
C3_ValidatedInBoth ==
    /\ \A t \in Range(validTables) : InBoth(t)
    /\ pc \in { "EmitMergeData", "Done" } => \A t \in Range(excludeTables) : InBoth(t)
    /\ \A t \in SectionTables : InBoth(t)

C3_Witness ==
    /\ pc = "Done"
    /\ SectionTables # {}
    /\ \E t \in Range(WorkingSet) :
          /\ (t \in sourceCatalog) # (t \in targetCatalog)
          /\ ~Includes(validTables, t)

Validated == pc \in { "EmitMergeData", "Done" }

\* C4 as stated: every working-set table missing from Target is categorized
\* targetOnly and every table missing from Source is categorized sourceOnly;
\* neither survives into validated and no merge-data section is emitted.
C4_Original ==
    Validated =>
        \A t \in Range(WorkingSet) :
            /\ t \notin targetCatalog => Includes(targetOnlyTables, t)
            /\ t \notin sourceCatalog => Includes(sourceOnlyTables, t)
            /\ ~InBoth(t) => ~Includes(validTables, t) /\ t \notin SectionTables

\* C4 as amended: every working-set table missing from Target is categorized
\* targetOnly (whether or not Source has it), every table missing from
\* Source and present in Target is categorized sourceOnly, each dropped
\* table is in exactly one category, none survives into validated and no
\* merge-data section is emitted for it.
C4_Categories ==
    Validated =>
        \A t \in Range(WorkingSet) :
            /\ t \notin targetCatalog =>
                  Includes(targetOnlyTables, t) /\ ~Includes(sourceOnlyTables, t)
            /\ (t \notin sourceCatalog /\ t \in targetCatalog) =>
                  Includes(sourceOnlyTables, t) /\ ~Includes(targetOnlyTables, t)
            /\ ~InBoth(t) => ~Includes(validTables, t) /\ t \notin SectionTables

C4_Witness ==
    /\ pc = "Done"
    /\ \E t \in Range(sourceOnlyTables) : t \in targetCatalog /\ t \notin sourceCatalog
    /\ \E t \in Range(targetOnlyTables) : t \notin targetCatalog /\ t \notin sourceCatalog

NormalizedName(n) == convertTableName(n, dbUnderscored)

\* C5 as stated: the reported duplicate count is the length of the configured
\* list minus the number of distinct names in it, and each name occurs
\* exactly once in the working set and in validated.
C5_Original ==
    /\ pc # "Init" =>
          duplicateCount = Len(cfgExcludeTables) - Cardinality(Range(cfgExcludeTables))
    /\ pc \notin { "Init", "DiscoverJunctions", "BuildTableSet" } =>
          \A n \in Range(cfgExcludeTables) : Count(WorkingSet, n) = 1
    /\ Validated =>
          \A n \in Range(cfgExcludeTables) : Count(validTables, n) = 1

\* C5 as amended: the reported duplicate count is the length of the
\* configured list minus the number of distinct names after conversion in
\* the configured mode; each converted name occurs exactly once in the
\* working set, and in validated exactly once when the table exists in both
\* catalogs and not at all otherwise.
C5_DuplicateCount ==
    /\ pc # "Init" =>
          duplicateCount = Len(cfgExcludeTables)
                           - Cardinality({ NormalizedName(n) : n \in Range(cfgExcludeTables) })
    /\ pc \notin { "Init", "DiscoverJunctions", "BuildTableSet" } =>
          /\ \A n \in Range(cfgExcludeTables) : Count(WorkingSet, NormalizedName(n)) = 1
          /\ IsDuplicateFree(WorkingSet)
    /\ Validated =>
          \A n \in Range(cfgExcludeTables) :
              Count(validTables, NormalizedName(n))
                  = IF InBoth(NormalizedName(n)) THEN 1 ELSE 0

C5_Witness ==
    /\ pc = "Done"
    /\ cfgExcludeTables = << users, users >>
    /\ duplicateCount = 1
    /\ validTables = << users >>

\* The association tables of the configured tables: the through names of
\* the well-formed fields whose owner is one of the names as configured.
\* The discovery step, respectively the merge of its result, has run
AfterDiscovery ==
    pc \in { "BuildTableSet", "DumpStructure", "ValidateExclusions",
             "EmitMergeData", "Done" }

AfterBuild ==
    pc \in { "DumpStructure", "ValidateExclusions", "EmitMergeData", "Done" }

ConfiguredJunctions ==
    getM2MJunctionTables(fieldRows, fieldsTableExists, FALSE,
                         Unique(cfgExcludeTables), dbUnderscored)

\* C6: after junction discovery the working exclusion set is the
\* deduplicated normalized initial list followed by the association tables
\* discovered for the initial tables, normalized in the same mode, without
\* duplicates; initial [users] with users.roles through userRoles in mode
\* to-separated gives exactly [users, user_roles].
C6_WorkingSet ==
    (AfterBuild /\ ~discoveryError) =>
        WorkingSet =
            Unique(NormalizedExcludeTables(cfgExcludeTables, dbUnderscored))
            \o FilterNotIn(ConfiguredJunctions,
                   Unique(NormalizedExcludeTables(cfgExcludeTables, dbUnderscored)))

\* C7: for both conversion modes the names passed to the metadata query are
\* the deduplicated names as given in the configuration.
C7_QueryNames ==
    (AfterDiscovery /\ dbUnderscored \in { "true", "false" }) =>
        originalExcludeTables = Unique(cfgExcludeTables)

\* C8: a name without the separator `_` converted to separated form and
\* back to compact form is the name again.
C8_RoundTrip ==
    (npc = "roundtrip" /\ "_" \notin Range(name)) => nresult = name

C8_Witness ==
    /\ npc = "roundtrip"
    /\ "_" \notin Range(name)
    /\ \E i, j \in 1..Len(name) : i < j /\ IsUpper(name[i]) /\ IsUpper(name[j])
    /\ nresult = name

\* The separated form the specification describes: every uppercase letter
\* that is not the first character becomes `_` and its lowercase form, every
\* other character stays.
RECURSIVE InternalSeparatedFrom(_, _)
InternalSeparatedFrom(str, i) ==
    IF i > Len(str) THEN << >>
    ELSE (IF i > 1 /\ IsUpper(str[i])
          THEN << "_", toLowerCase(str[i]) >>
          ELSE << str[i] >>) \o InternalSeparatedFrom(str, i + 1)

IsSingleWord(str) ==
    /\ "_" \notin Range(str)
    /\ \A i \in 2..Len(str) : ~IsUpper(str[i])

IsSeparated(str) == \A i \in 1..Len(str) : ~IsUpper(str[i])

\* C9: in mode to-separated every internal uppercase letter is replaced by
\* `_` and its lowercase form, and an already-separated name or a
\* single-word name (also one beginning with an uppercase letter) is
\* returned unchanged.
C9_ToSeparated ==
    (npc = "normalized" /\ nmode = "true") =>
        /\ nresult = InternalSeparatedFrom(name, 1)
        /\ (IsSingleWord(name) \/ IsSeparated(name)) => nresult = name

IsLetter(c) == IsLower(c) \/ IsUpper(c)

\* The compact form described position by position: the characters at the
\* positions of marks are removed and the character after each of them is
\* uppercased; every other character stays.
RECURSIVE CompactFrom(_, _, _)
CompactFrom(str, marks, i) ==
    IF i > Len(str) THEN << >>
    ELSE (IF i \in marks THEN << >>
          ELSE IF (i - 1) \in marks THEN << toUpperCase(str[i]) >>
          ELSE << str[i] >>) \o CompactFrom(str, marks, i + 1)

SeparatorsBeforeLetter(str) ==
    { i \in 1..(Len(str) - 1) : str[i] = "_" /\ IsLetter(str[i + 1]) }

SeparatorsBeforeLower(str) ==
    { i \in 1..(Len(str) - 1) : str[i] = "_" /\ IsLower(str[i + 1]) }

\* C10 as stated: in mode to-compact every `_` followed by a letter, of
\* either case, is removed and that letter uppercased; all other characters
\* are unchanged.
C10_Original ==
    (npc = "normalized" /\ nmode = "false") =>
        nresult = CompactFrom(name, SeparatorsBeforeLetter(name), 1)

\* C10 as amended: in mode to-compact every `_` followed by a lowercase
\* letter a-z is removed and that letter uppercased, for every such
\* occurrence; all other characters, a `_` followed by an uppercase letter
\* included, are unchanged.
C10_ToCompact ==
    (npc = "normalized" /\ nmode = "false") =>
        nresult = CompactFrom(name, SeparatorsBeforeLower(name), 1)

C10_Witness ==
    /\ npc = "normalized" /\ nmode = "false"
    /\ name = << "_", "a", "_", "b" >>
    /\ nresult = << "A", "B" >>

\* ------------------------------------------------------------------------
\* Merge Emitter applied to bounded tables, in its two variants

InitEmit ==
    /\ emitter \in { "dump", "replace" }
    /\ etables \in { l \in SeqsUpTo(TablePool, MaxTables) : IsDuplicateFree(l) }
    /\ \E cases \in [ Range(etables) -> ColumnCasesFor(emitter) ] :
          /\ srcColsOf = [ t \in Range(etables) |-> cases[t].source ]
          /\ tgtColsOf = [ t \in Range(etables) |-> cases[t].target ]
    /\ rowCountOf \in { f \in [ Range(etables) -> RowCounts ] :
                            \A t \in Range(etables) :
                                tgtColsOf[t] = << >> => f[t] = 0 }
    /\ eidx = 1 /\ targetDataSQL = << >> /\ efile = << DumpEntry >>
    /\ epc = "start" /\ efailed = {} /\ efailure = "none"
    \* open connections: the REPLACE-based mergeExports holds its targetConn
    \* since step 2; the dump-based one has closed both before step 4
    /\ srcOpen = 0
    /\ tgtOpen = (IF emitter = "replace" THEN 1 ELSE 0)
    /\ tgtPeak = tgtOpen
    /\ NormIdle /\ ColIdle /\ RunIdle /\ DiscIdle /\ FileIdle /\ DumpIdle

\* exportTargetTablesData returns at once when it is given no table, else
\* opens its two connections (a throw is rethrown to mergeExports) and
\* starts the text with the banner; the REPLACE-based mergeExports starts
\* the text and opens a connection per table.
StartEmission ==
    /\ epc = "start"
    /\ \/ /\ emitter = "dump" /\ etables = << >>
          /\ epc' = "Done"
          /\ UNCHANGED << targetDataSQL, efailure, efile, srcOpen, tgtOpen, tgtPeak >>
       \/ /\ emitter = "dump" /\ etables # << >>
          /\ \/ /\ targetDataSQL' = << Banner >>
                /\ epc' = "tables"
                /\ srcOpen' = srcOpen + 1 /\ tgtOpen' = tgtOpen + 1
                /\ tgtPeak' = (IF tgtOpen + 1 > tgtPeak THEN tgtOpen + 1 ELSE tgtPeak)
                /\ UNCHANGED << efailure, efile >>
             \* either createConnection throws; the finally ends the
             \* source connection when it was the second that threw
             \/ /\ efailure' = "connect"
                /\ epc' = "Aborted"
                /\ efile' = FileAfterFailure(efile, targetDataSQL)
                /\ UNCHANGED << targetDataSQL, srcOpen, tgtOpen, tgtPeak >>
       \/ /\ emitter = "replace"
          /\ targetDataSQL' = << Banner >>
          /\ epc' = "tables"
          /\ UNCHANGED << efailure, efile, srcOpen, tgtOpen, tgtPeak >>
    /\ UNCHANGED << emitter, etables, srcColsOf, tgtColsOf, rowCountOf, eidx,
                    efailed, normVars, colVars, envVars, runVars,
                    discVars, fileVars, dumpVars >>

\* Whether the dump utility is run for the table
ReachesDump(table) ==
    getCommonColumns(srcColsOf[table], tgtColsOf[table]).commonColumns # << >>

\* One turn of the loop of exportTargetTablesData.  A query (the column
\* queries, CREATE VIEW) or the dump of the table may throw: the catch of
\* the function logs and rethrows, nothing is appended, the finally ends
\* both connections.
EmitTableDump ==
    /\ emitter = "dump" /\ epc = "tables" /\ eidx <= Len(etables)
    /\ LET table == etables[eidx]
       IN \/ /\ targetDataSQL' = targetDataSQL \o
                     DumpSection(table, srcColsOf[table], tgtColsOf[table],
                                 rowCountOf[table])
             /\ eidx' = eidx + 1
             /\ UNCHANGED << epc, efailed, efailure, efile, srcOpen, tgtOpen >>
          \/ \E error \in { "query" } \cup
                           (IF ReachesDump(table) THEN { "dump" } ELSE {}) :
                /\ efailed' = efailed \cup { table }
                /\ efailure' = error
                /\ epc' = "Aborted"
                /\ efile' = FileAfterFailure(efile, targetDataSQL)
                /\ srcOpen' = srcOpen - 1 /\ tgtOpen' = tgtOpen - 1
                /\ UNCHANGED << targetDataSQL, eidx >>
    /\ UNCHANGED << emitter, etables, srcColsOf, tgtColsOf, rowCountOf, tgtPeak,
                    normVars, colVars, envVars, runVars, discVars, fileVars, dumpVars >>

\* One turn of the loop of the REPLACE-based mergeExports: the DELETE, then
\* what exportTableDataWithReplace returns, an error comment when a
\* connection or a query of the table threw.  The function opens its own
\* two connections, outside its inner try, and ends them in the finally of
\* that try: a throw of the second createConnection leaves the first open.
EmitTableReplace ==
    /\ emitter = "replace" /\ epc = "tables" /\ eidx <= Len(etables)
    /\ LET table == etables[eidx]
       IN \E outcome \in { "ok", "connectSource", "connectTarget", "query" } :
             /\ targetDataSQL' = targetDataSQL \o
                     ReplaceSection(table, srcColsOf[table], tgtColsOf[table],
                                    rowCountOf[table], outcome)
             /\ efailed' = IF outcome = "ok" THEN efailed
                                             ELSE efailed \cup { table }
             /\ srcOpen' = IF outcome = "connectTarget" THEN srcOpen + 1
                                                        ELSE srcOpen
             /\ tgtPeak' = IF outcome \in { "ok", "query" } /\ tgtOpen + 1 > tgtPeak
                           THEN tgtOpen + 1 ELSE tgtPeak
    /\ eidx' = eidx + 1
    /\ UNCHANGED << emitter, etables, srcColsOf, tgtColsOf, rowCountOf, efile,
                    epc, efailure, tgtOpen, normVars, colVars, envVars, runVars,
                    discVars, fileVars, dumpVars >>

\* fs.appendFile of the whole text after the loop; a throw reaches the
\* catch of mergeExports.  The dump-based exportTargetTablesData ends its
\* connections in its finally either way; the REPLACE-based mergeExports
\* ends its targetConn in its finally, which the process.exit(1) of its
\* catch does not reach.
AppendSections ==
    /\ epc = "tables" /\ eidx > Len(etables)
    /\ \/ /\ efile' = efile \o targetDataSQL
          /\ epc' = "Done"
          /\ srcOpen' = (IF emitter = "dump" THEN srcOpen - 1 ELSE srcOpen)
          /\ tgtOpen' = tgtOpen - 1
          /\ UNCHANGED efailure
       \/ /\ efailure' = "write"
          /\ epc' = "Aborted"
          /\ efile' = FileAfterFailure(efile, targetDataSQL)
          /\ srcOpen' = (IF emitter = "dump" THEN srcOpen - 1 ELSE srcOpen)
          /\ tgtOpen' = (IF emitter = "dump" THEN tgtOpen - 1 ELSE tgtOpen)
    /\ UNCHANGED << emitter, etables, srcColsOf, tgtColsOf, rowCountOf, eidx,
                    targetDataSQL, efailed, tgtPeak, normVars, colVars, envVars,
                    runVars, discVars, fileVars, dumpVars >>

NextEmit ==
    \/ StartEmission
    \/ EmitTableDump
    \/ EmitTableReplace
    \/ AppendSections

SpecEmit == InitEmit /\ [][NextEmit]_vars

\* ------------------------------------------------------------------------
\* Output file names over several runs with one configuration.  clock is the
\* current second.

InitFile ==
    /\ cfgOutputFile = << >> /\ clock = 1 /\ writes = << >> /\ fpc = "config"
    /\ NormIdle /\ ColIdle /\ RunIdle /\ EmitIdle /\ DiscIdle /\ DumpIdle

Tick ==
    /\ fpc \in { "config", "ready" }
    /\ clock < MaxClock
    /\ clock' = clock + 1
    /\ UNCHANGED << cfgOutputFile, writes, fpc, normVars, colVars, envVars,
                    runVars, emitVars, discVars, dumpVars >>

\* dbm --init writes config.json
InitConfig ==
    /\ fpc = "config"
    /\ cfgOutputFile' = InitOutputFile(clock)
    /\ fpc' = "ready"
    /\ UNCHANGED << clock, writes, normVars, colVars, envVars, runVars,
                    emitVars, discVars, dumpVars >>

\* config.json is written by hand
WriteConfig ==
    /\ fpc = "config"
    /\ cfgOutputFile' \in HandWrittenPool
    /\ fpc' = "ready"
    /\ UNCHANGED << clock, writes, normVars, colVars, envVars, runVars,
                    emitVars, discVars, dumpVars >>

\* One export run: exportStructure overwrites the file of that name
RunExport ==
    /\ fpc = "ready"
    /\ Len(writes) < MaxRuns
    /\ writes' = Append(writes, [ time |-> clock,
                                  file |-> RunOutputFile(cfgOutputFile, clock) ])
    /\ UNCHANGED << cfgOutputFile, clock, fpc, normVars, colVars, envVars,
                    runVars, emitVars, discVars, dumpVars >>

NextFile ==
    \/ Tick
    \/ InitConfig
    \/ WriteConfig
    \/ RunExport

SpecFile == InitFile /\ [][NextFile]_vars

\* C23: two export runs started at different seconds never write to the
\* same output file, for a configuration generated by dbm --init as well as
\* for a hand-written outputFile.
C23_UniqueFile ==
    \A i, j \in 1..Len(writes) :
        writes[i].time # writes[j].time => writes[i].file # writes[j].file

\* ------------------------------------------------------------------------
\* exportStructure: the promise, the dump processes and their events.  The
\* output of a process is counted in chunks; MaxBuffered chunks fit into the
\* pipe and the stream of a stdout nobody listens to, a process that has
\* more to write waits.

InitDump ==
    /\ sState = "none" /\ sTotal = 0 /\ sLeft = 0 /\ structureOutput = 0
    /\ dState = "none" /\ dTotal = 0 /\ dLeft = 0 /\ dBuffered = 0
    /\ dataOutput = 0 /\ dListeners = FALSE /\ promise = "pending"
    /\ xfile = << >>
    /\ NormIdle /\ ColIdle /\ RunIdle /\ EmitIdle /\ DiscIdle /\ FileIdle

\* The executor of the promise: with excluded tables it spawns the
\* structure dump and the data dump one right after the other and attaches
\* the listeners of the structure dump; without, it spawns one dump.
SpawnDumps ==
    /\ promise = "pending" /\ sState = "none"
    /\ \E withExcluded \in BOOLEAN, s \in 0..MaxChunks, d \in 0..MaxChunks :
          /\ sState' = "running" /\ sTotal' = s /\ sLeft' = s
          /\ IF withExcluded
             THEN dState' = "running" /\ dTotal' = d /\ dLeft' = d
             ELSE dState' = "none" /\ dTotal' = 0 /\ dLeft' = 0
    /\ UNCHANGED << structureOutput, dBuffered, dataOutput, dListeners, promise,
                    xfile, normVars, colVars, envVars, runVars, emitVars,
                    discVars, fileVars >>

\* dumpStructure.stdout 'data'
StructData ==
    /\ sState = "running" /\ sLeft > 0
    /\ sLeft' = sLeft - 1
    /\ structureOutput' = structureOutput + 1
    /\ UNCHANGED << sState, sTotal, dState, dTotal, dLeft, dBuffered, dataOutput,
                    dListeners, promise, xfile, normVars, colVars, envVars,
                    runVars, emitVars, discVars, fileVars >>

\* resolve / reject of a promise that is already settled does nothing
Settle(current, outcome) == IF current = "pending" THEN outcome ELSE current

\* dumpStructure 'close': a non-zero code rejects; code 0 comes after the
\* whole output.  With a data dump the handler attaches the listeners of
\* dumpData; without, it writes the file.
StructClose ==
    /\ sState = "running"
    /\ sState' = "closed"
    /\ \/ /\ promise' = Settle(promise, "rejected")
          /\ UNCHANGED << dListeners, xfile >>
       \/ /\ sLeft = 0 /\ dState # "none"
          /\ dListeners' = TRUE
          /\ UNCHANGED << promise, xfile >>
       \/ /\ sLeft = 0 /\ dState = "none"
          /\ \/ /\ xfile' = << [ structure |-> structureOutput, data |-> 0 ] >>
                /\ promise' = Settle(promise, "resolved")
             \/ /\ promise' = Settle(promise, "rejected")
                /\ UNCHANGED xfile
          /\ UNCHANGED dListeners
    /\ UNCHANGED << sTotal, sLeft, structureOutput, dState, dTotal, dLeft,
                    dBuffered, dataOutput, normVars, colVars, envVars, runVars,
                    emitVars, discVars, fileVars >>

\* The data dump writes a chunk: it goes to the 'data' listener when there
\* is one and nothing waits before it, else it waits in the stream.
DataWrite ==
    /\ dState = "running" /\ dLeft > 0
    /\ dListeners \/ dBuffered < MaxBuffered
    /\ dLeft' = dLeft - 1
    /\ IF dListeners /\ dBuffered = 0
       THEN dataOutput' = dataOutput + 1 /\ UNCHANGED dBuffered
       ELSE dBuffered' = dBuffered + 1 /\ UNCHANGED dataOutput
    /\ UNCHANGED << sState, sTotal, sLeft, structureOutput, dState, dTotal,
                    dListeners, promise, xfile, normVars, colVars, envVars,
                    runVars, emitVars, discVars, fileVars >>

\* dumpData.stdout 'data' for a chunk that waited for the listener
DataDeliver ==
    /\ dListeners /\ dBuffered > 0
    /\ dBuffered' = dBuffered - 1
    /\ dataOutput' = dataOutput + 1
    /\ UNCHANGED << sState, sTotal, sLeft, structureOutput, dState, dTotal, dLeft,
                    dListeners, promise, xfile, normVars, colVars, envVars,
                    runVars, emitVars, discVars, fileVars >>

\* The data dump exits and dumpData emits 'close'.  With the listeners
\* attached this comes after the last 'data': a non-zero code rejects, code 0
\* writes header, structure and data and resolves (rejects when the write
\* throws).  Before the listeners are attached the event has no handler and
\* what waited in the stream is dropped.
DataClose ==
    /\ dState = "running"
    /\ dState' = "closed"
    /\ \/ /\ dListeners /\ dBuffered = 0
          /\ \/ /\ promise' = Settle(promise, "rejected")
                /\ UNCHANGED xfile
             \/ /\ dLeft = 0
                /\ xfile' = << [ structure |-> structureOutput,
                                 data |-> dataOutput ] >>
                /\ promise' = Settle(promise, "resolved")
          /\ UNCHANGED dBuffered
       \/ /\ ~dListeners
          /\ dBuffered' = 0
          /\ UNCHANGED << promise, xfile >>
    /\ UNCHANGED << sState, sTotal, sLeft, structureOutput, dTotal, dLeft,
                    dataOutput, dListeners, normVars, colVars, envVars, runVars,
                    emitVars, discVars, fileVars >>

NextDump ==
    \/ SpawnDumps
    \/ StructData
    \/ StructClose
    \/ DataWrite
    \/ DataDeliver
    \/ DataClose

SpecDump == InitDump /\ [][NextDump]_vars

\* C21: no two external operations are in progress at the same time; in
\* particular the structure dump and the data dump of DumpStructure do not
\* run in parallel.
C21_NoParallelDumps ==
    ~(sState = "running" /\ dState = "running")

\* C27: exportStructure settles in every interleaving of the events of its
\* two dump processes: once both have closed the promise is resolved or
\* rejected, and when it is resolved the file holds the whole output of
\* both dumps.
C27_Settles ==
    /\ (sState = "closed" /\ dState \in { "closed", "none" }) =>
           promise \in { "resolved", "rejected" }
    /\ promise = "resolved" =>
           xfile = << [ structure |-> sTotal, data |-> dTotal ] >>

\* ------------------------------------------------------------------------
\* Junction Discoverer applied to bounded metadata rows

InitDiscover ==
    /\ drows \in SeqsUpTo(MetaPool, MaxMeta)
    /\ dnames \in QueryNamePool
    /\ dmode \in Modes
    /\ dresult = << >> /\ dpc = "input"
    /\ NormIdle /\ ColIdle /\ RunIdle /\ EmitIdle /\ FileIdle /\ DumpIdle

Discover ==
    /\ dpc = "input"
    /\ dresult' = getM2MJunctionTables(drows, TRUE, FALSE, dnames, dmode)
    /\ dpc' = "done"
    /\ UNCHANGED << drows, dnames, dmode, normVars, colVars, envVars, runVars,
                    emitVars, fileVars, dumpVars >>

NextDiscover == Discover

SpecDiscover == InitDiscover /\ [][NextDiscover]_vars

\* The rows the query returns for the names asked, that parse and carry a
\* through attribute
WellFormedRows ==
    { k \in 1..Len(drows) :
          /\ Includes(dnames, drows[k].collection_name)
          /\ drows[k].parses
          /\ drows[k].through # << >> }

ThroughOf(k) == convertTableName(drows[k].through, dmode)

FirstRowOf(n) ==
    CHOOSE k \in WellFormedRows :
        /\ ThroughOf(k) = n
        /\ \A l \in WellFormedRows : ThroughOf(l) = n => k <= l

\* C20: a record whose options payload does not parse, or has no through
\* attribute, is skipped wherever it stands in the sequence: the result is
\* duplicate-free, holds exactly the normalized through names of the other
\* records, in the order of their first record.
C20_MalformedSkipped ==
    dpc = "done" =>
        /\ IsDuplicateFree(dresult)
        /\ Range(dresult) = { ThroughOf(k) : k \in WellFormedRows }
        /\ \A i, j \in 1..Len(dresult) :
              i < j => FirstRowOf(dresult[i]) < FirstRowOf(dresult[j])

C20_Witness ==
    /\ dpc = "done"
    /\ Len(drows) = 3
    /\ ~drows[2].parses
    /\ drows[1].parses /\ drows[1].through # << >>
    /\ drows[3].parses /\ drows[3].through # << >>
    /\ Len(dresult) = 2

\* ------------------------------------------------------------------------
\* Pipeline order and failure policy

StepOrder ==
    << "Init", "DiscoverJunctions", "BuildTableSet", "DumpStructure",
       "ValidateExclusions", "EmitMergeData", "Done" >>

StepIndex(step) == PosOf(StepOrder, step)

\* C17: the steps of a run occur in the order DiscoverJunctions,
\* BuildTableSet, DumpStructure, ValidateExclusions, EmitMergeData, Done:
\* every change of step goes to the immediate successor (or to Aborted), so
\* none is skipped or repeated, and the structural dump is the first entry
\* of the artifact, before every merge-data section.
C17_StepOrder ==
    [][ /\ pc' # pc =>
              \/ pc' = "Aborted"
              \/ /\ Includes(StepOrder, pc) /\ Includes(StepOrder, pc')
                 /\ StepIndex(pc') = StepIndex(pc) + 1
        /\ \A i \in 1..Len(artifact') :
              (artifact'[i].kind = "dump") <=> (i = 1)
        /\ pc' \in { "ValidateExclusions", "EmitMergeData", "Done" } =>
              artifact' # << >> ]_vars

C17_Witness ==
    /\ pc = "Done"
    /\ Len(artifact) > 1
    /\ artifact[1].kind = "dump"
    /\ artifact[Len(artifact)].kind = "section"

C19_DiscoveryNeverAborts ==
    [][ /\ (pc = "DiscoverJunctions" /\ discoveryError') =>
              pc' = "BuildTableSet" /\ junctionTables' = << >>
        /\ (pc = "DiscoverJunctions" /\ ~fieldsTableExists /\ pc' # "Aborted") =>
              pc' = "BuildTableSet" /\ junctionTables' = << >>
        /\ (pc = "BuildTableSet" /\ (discoveryError \/ ~fieldsTableExists)) =>
              excludeTables' = excludeTables ]_vars

C19_Witness ==
    /\ pc = "Done"
    /\ discoveryError
    /\ fieldRows # << >>
    /\ WorkingSet = Unique(NormalizedExcludeTables(cfgExcludeTables, dbUnderscored))
    /\ SectionTables # {}

\* ------------------------------------------------------------------------
\* Merge Emitter: what the appended text holds for each table

ECommon(t) == FilterIn(srcColsOf[t], tgtColsOf[t])

ETargetOnly(t) == FilterNotIn(tgtColsOf[t], srcColsOf[t])

InBothSchemas(t) == srcColsOf[t] # << >> /\ tgtColsOf[t] # << >>

EntriesNaming(t) == { i \in 1..Len(efile) : efile[i].table = t }

DeletesOf(t) == { i \in EntriesNaming(t) : efile[i].kind = "delete" }

LoadsOf(t) == { i \in EntriesNaming(t) : efile[i].kind = "load" }

\* C11: for every table whose reconciled common column list is empty the
\* merge-data part of the artifact holds an explanatory comment for the
\* table and no statement at all, neither a DELETE nor a load.
C11_CommentOnly ==
    epc = "Done" =>
        \A t \in Range(etables) :
            (InBothSchemas(t) /\ ECommon(t) = << >> /\ t \notin efailed) =>
                /\ \E i \in EntriesNaming(t) :
                      efile[i] = CommentEntry(t, "noCommonColumns")
                /\ DeletesOf(t) = {}
                /\ LoadsOf(t) = {}

\* C12: a table of the exclusion list that does not exist in Source or does
\* not exist in Target is left out of merge-data emission: the finished
\* artifact holds no DELETE and no load statement naming it.
C12_MissingExcluded ==
    epc = "Done" =>
        \A t \in Range(etables) :
            ~InBothSchemas(t) => DeletesOf(t) = {} /\ LoadsOf(t) = {}

\* C13: for every table that exists in both schemas with a non-empty common
\* column list the artifact holds exactly one DELETE of the table, also
\* when Target holds no row of it, and the DELETE stands before every load
\* statement of the table.
C13_ClearOnceFirst ==
    epc = "Done" =>
        \A t \in Range(etables) :
            (InBothSchemas(t) /\ ECommon(t) # << >>) =>
                /\ Cardinality(DeletesOf(t)) = 1
                /\ \A d \in DeletesOf(t) : \A l \in LoadsOf(t) : d < l

C13_Witness ==
    /\ epc = "Done"
    /\ emitter = "dump"
    /\ \E t \in Range(etables) :
          /\ ECommon(t) # << >>
          /\ rowCountOf[t] = 0
          /\ Cardinality(DeletesOf(t)) = 1
    /\ \E t \in Range(etables) : LoadsOf(t) # {}

\* The destination table as a map from primary key to row; a row gives a
\* value to every column of the Source schema.  Row k of Target carries
\* << "target", k >> in each of its columns and has primary key k.
NoRows == [ k \in {} |-> 0 ]

StalePk == 2 * batchSize

StaleRow(t, k) == [ c \in Range(srcColsOf[t]) |-> << "stale", k >> ]

DestStates(t) ==
    { NoRows,
      [ k \in { 1 } |-> StaleRow(t, k) ],
      [ k \in { StalePk } |-> StaleRow(t, k) ] }

LoadedRow(t, e, k) ==
    [ c \in Range(srcColsOf[t]) |->
          IF Includes(e.columns, c) THEN << "target", k >> ELSE << "default", 0 >> ]

ApplyEntry(e, D, t) ==
    IF e.table # t THEN D
    ELSE IF e.kind = "delete" THEN NoRows
    ELSE IF e.kind = "load"
    THEN [ k \in (DOMAIN D) \cup (e.from .. e.to) |->
               IF k \in e.from .. e.to THEN LoadedRow(t, e, k) ELSE D[k] ]
    ELSE D

RECURSIVE ApplyAll(_, _, _)
ApplyAll(entries, D, t) ==
    IF entries = << >> THEN D
    ELSE ApplyAll(Tail(entries), ApplyEntry(Head(entries), D, t), t)

ProjectRows(D, columns) ==
    [ k \in DOMAIN D |-> [ c \in Range(columns) |-> D[k][c] ] ]

TargetProjected(t) ==
    [ k \in 1 .. rowCountOf[t] |-> [ c \in Range(ECommon(t)) |-> << "target", k >> ] ]

\* C14: for a table emitted without error, with common columns, applying
\* the statements of the artifact to any destination state twice gives the
\* same rows as applying them once, and those rows are the rows of Target
\* projected on the common columns.
C14_Idempotent ==
    epc = "Done" =>
        \A t \in Range(etables) \ efailed :
            (InBothSchemas(t) /\ ECommon(t) # << >>) =>
                \A D \in DestStates(t) :
                    LET once == ApplyAll(efile, D, t)
                    IN /\ ApplyAll(efile, once, t) = once
                       /\ DOMAIN once = 1 .. rowCountOf[t]
                       /\ ProjectRows(once, ECommon(t)) = TargetProjected(t)

C14_Witness ==
    /\ epc = "Done"
    /\ emitter = "replace"
    /\ \E t \in Range(etables) \ efailed :
          /\ rowCountOf[t] > batchSize
          /\ Cardinality(LoadsOf(t)) = 2
          /\ Cardinality(DeletesOf(t)) = 1

\* C15: every load statement writes exactly the common columns of its
\* table, so no Target-only column is written; when the table has a
\* Target-only column the rows are read through the view or the SELECT over
\* the common columns, not from the dump of the table itself.
C15_OnlyCommonWritten ==
    \A i \in 1..Len(efile) :
        efile[i].kind = "load" =>
            LET t == efile[i].table
            IN /\ Range(efile[i].columns) = Range(ECommon(t))
               /\ IsDuplicateFree(efile[i].columns)
               /\ \A c \in Range(ETargetOnly(t)) : ~Includes(efile[i].columns, c)
               /\ ETargetOnly(t) # << >> =>
                     /\ efile[i].via \in { "view", "select" }
                     /\ efile[i].columns = ECommon(t)

C15_Witness ==
    /\ epc = "Done"
    /\ \E i \in 1..Len(efile) :
          /\ efile[i].kind = "load"
          /\ efile[i].via = "view"
          /\ ETargetOnly(efile[i].table) # << >>
          /\ efile[i].columns = << "id" >>

\* C16: when the emission of one table fails on a query or on the dump of
\* that table, the run is not aborted: the failure is an inline comment of
\* the finished artifact and every later table of the list has its section.
C16_FailureIsolated ==
    (efailed # {} /\ efailure \notin { "connect", "write" }) =>
        /\ epc # "Aborted"
        /\ epc = "Done" =>
              \A t \in efailed :
                  /\ \E i \in EntriesNaming(t) : efile[i] = CommentEntry(t, "error")
                  /\ \A j \in 1..Len(etables) :
                        j > PosOf(etables, t) => EntriesNaming(etables[j]) # {}

\* ------------------------------------------------------------------------
\* Table-set construction: depth of the discovery, mode none, data sides

\* The through names of the fields owned by the tables named in the query
FirstLevelThrough ==
    { convertTableName(fieldRows[k].through, dbUnderscored) :
          k \in { i \in 1..Len(fieldRows) :
                      /\ Includes(originalExcludeTables, fieldRows[i].collection_name)
                      /\ fieldRows[i].parses
                      /\ fieldRows[i].through # << >> } }

\* C24: junction discovery is single-level.  The discovered list is set in
\* the DiscoverJunctions step only, from one query over the initial
\* exclusion names, and every table the discovery adds to the exclusion set
\* is the association table of a field owned by one of those names, never
\* of a table that was itself discovered.
C24_SingleLevel ==
    [][ /\ junctionTables' # junctionTables => pc = "DiscoverJunctions"
        /\ originalExcludeTables' # originalExcludeTables => pc = "DiscoverJunctions"
        /\ Range(junctionTables') \subseteq FirstLevelThrough'
        /\ AfterBuild' =>
              Range(WorkingSet') \subseteq
                  Range(NormalizedExcludeTables(cfgExcludeTables, dbUnderscored))
                  \cup FirstLevelThrough' ]_vars

C24_Witness ==
    /\ pc = "Done"
    /\ dbUnderscored = "undefined"
    /\ junctionTables = << userRoles >>
    /\ \E k \in 1..Len(fieldRows) :
          fieldRows[k].collection_name = userRoles /\ fieldRows[k].through = tags
    /\ ~Includes(WorkingSet, tags)

\* C26: when the conversion mode is none (dbUnderscored unset, 'auto', null)
\* the table-set construction leaves every name as it is: the exclusion
\* names are the deduplicated configured names, the names handed to the
\* discovery query are those same names, and the discovered names are the
\* through names as stored.
C26_NoneIsIdentity ==
    dbUnderscored \notin { "true", "false" } =>
        /\ pc \in { "DiscoverJunctions", "BuildTableSet" } =>
              excludeTables = Unique(cfgExcludeTables)
        /\ AfterDiscovery => originalExcludeTables = Unique(cfgExcludeTables)
        /\ \A t \in Range(junctionTables) :
              \E k \in 1..Len(fieldRows) : fieldRows[k].through = t

\* C28: at Done every table of Source has its rows in the artifact from
\* exactly one side: from the dump of Source when the table is not in the
\* exclusion filter given to the dump, otherwise from Target through its
\* merge-data section.
C28_ExactlyOneSide ==
    pc = "Done" =>
        \A t \in sourceCatalog :
            (~Includes(artifact[1].tables, t)) # (t \in SectionTables)

\* ------------------------------------------------------------------------
\* Merge Emitter: batches, the single append, connections

\* The tables for which the REPLACE-based emitter reaches its batch loop
ReplaceLoaded ==
    { t \in Range(etables) \ efailed : InBothSchemas(t) /\ ECommon(t) # << >> }

\* C25: for n > 0 rows read from Target the REPLACE-based emitter writes
\* ceil(n / 100) load statements, each with at most 100 rows; every row is
\* in exactly one statement and the statements follow the read order; for
\* n = 0 it writes no load statement.
C25_Batches ==
    (emitter = "replace" /\ epc = "Done") =>
        \A t \in ReplaceLoaded :
            LET n == rowCountOf[t]
            IN /\ Cardinality(LoadsOf(t)) = (n + 99) \div 100
               /\ \A l \in LoadsOf(t) :
                     /\ efile[l].from <= efile[l].to
                     /\ efile[l].to - efile[l].from + 1 <= 100
               /\ \A k \in 1..n :
                     Cardinality({ l \in LoadsOf(t) :
                                      efile[l].from <= k /\ k <= efile[l].to }) = 1
               /\ \A l1, l2 \in LoadsOf(t) :
                     l1 < l2 => efile[l1].to < efile[l2].from

C25_Witness ==
    /\ emitter = "replace" /\ epc = "Done"
    /\ \E t \in ReplaceLoaded :
          rowCountOf[t] = 101 /\ Cardinality(LoadsOf(t)) = 2
    /\ \E t \in ReplaceLoaded :
          rowCountOf[t] = 100 /\ Cardinality(LoadsOf(t)) = 1

\* C29: in the dump-based emitter the artifact is extended once, by the
\* whole merge-data text, after the last table; when the emission fails at
\* any table the run is Aborted and the artifact holds the structural dump
\* and nothing else.
C29_SingleAppend ==
    [][ emitter = "dump" =>
          /\ efile' # efile =>
                /\ epc = "tables" /\ eidx > Len(etables)
                /\ epc' = "Done"
                /\ efile' = efile \o targetDataSQL
          /\ epc' = "Aborted" => efile' = << DumpEntry >>
          /\ (epc = "tables" /\ efailed' # efailed) => epc' = "Aborted" ]_vars

C29_Witness ==
    /\ emitter = "dump" /\ epc = "Aborted"
    /\ Len(etables) = 2 /\ eidx = 2 /\ efailed = { etables[2] }
    /\ \E i \in 1..Len(targetDataSQL) : targetDataSQL[i].kind = "delete"
    /\ efile = << DumpEntry >>

\* C22: every connection opened by a phase is closed when the phase ends
\* and before the run terminates, and at no time is more than one Source
\* connection or more than one Target connection open.
C22_ConnectionsClosed ==
    /\ srcOpen <= 1 /\ tgtOpen <= 1 /\ tgtPeak <= 1
    /\ epc \in { "Done", "Aborted" } => srcOpen = 0 /\ tgtOpen = 0

====
